---------------------------- MODULE Spec2Model ----------------------------
(***************************************************************************)
(* Model of webserv.py: the sandboxed path resolver                        *)
(* (normalize_root_and_rel), the thumbnail handler with its in-memory      *)
(* cache (api_thumb, thumb_cache), the Range streaming handler (media,     *)
(* iter_file_range) and the directory listing (list_dir, api_list).        *)
(*                                                                         *)
(* Strings are sequences of one-character strings, so that str.startswith, *)
(* str.split and int() are computed on characters as Python computes them. *)
(***************************************************************************)
EXTENDS Integers, Sequences, FiniteSets, TLC

VARIABLES
    \* ---- normalize_root_and_rel called on its own (PathSpec)
    p_root_index,   \* argument root_index
    p_rel_path,     \* argument rel_path (a string)
    p_result,       \* NotCalled before the call, then the call's outcome
    \* ---- api_thumb (Spec, FairSpec)
    thumb_cache,    \* the module-level dict: key -> bytes
    t_pc,           \* per request: "idle", "sniff", "exec", "communicate", "done"
    t_key,          \* per request: the key f"{root_index}:{path}", or NoKey
    t_path,         \* per request: the resolved path p, or NoPath
    t_proc,         \* per request: state of its ffmpeg subprocess
    t_status,       \* per request: HTTP status of the response, 0 before
    t_body,         \* per request: response content, NoBytes before
    t_work,         \* per request: the work the handler has performed
    \* ---- media + iter_file_range (MediaSpec)
    m_file,         \* the bytes of the file on disk
    m_header,       \* the request's Range header, NoHeader when absent
    m_pc,           \* "idle", "respond", "reading", "cancelled", "closed", "done"
    m_status,       \* HTTP status, 0 before
    m_resp,         \* the response headers the handler set
    m_iter,         \* arguments and locals of iter_file_range
    m_body,         \* the chunks yielded so far
    m_open,         \* whether the iterator's file handle is open
    m_changes,      \* number of changes made to the file by other processes
    \* ---- api_list + list_dir (ListSpec)
    l_dir,          \* the listed directory: entry name -> its stat
    l_root_index,   \* argument root_index
    l_path,         \* query parameter p (a string)
    l_q,            \* query parameter q, NoQuery when absent
    l_sort,         \* query parameter sort, NoSort when absent
    l_status,       \* HTTP status of the response, 0 before
    l_items         \* the items of the response

pathVars  == <<p_root_index, p_rel_path, p_result>>
thumbVars == <<thumb_cache, t_pc, t_key, t_path, t_proc, t_status, t_body, t_work>>
mediaVars == <<m_file, m_header, m_pc, m_status, m_resp, m_iter, m_body, m_open, m_changes>>
listVars  == <<l_dir, l_root_index, l_path, l_q, l_sort, l_status, l_items>>
vars      == <<pathVars, thumbVars, mediaVars, listVars>>

-----------------------------------------------------------------------------
(* Bounds of the model *)

\* longest rel_path string given to normalize_root_and_rel on its own
MaxRelLen == 6

\* characters a rel_path is made of
PathAlphabet == {"/", ".", "m", "2"}

\* root_index values tried: every valid one, negative ones and too large ones
RootIndexInputs == -3 .. 2

-----------------------------------------------------------------------------
(* Strings *)

\* str.startswith(prefix)
StartsWith(s, prefix) ==
    /\ Len(prefix) <= Len(s)
    /\ SubSeq(s, 1, Len(prefix)) = prefix

\* str.split(sep) for a one-character separator: always at least one field
RECURSIVE Split(_, _)
Split(s, sep) ==
    IF \A i \in 1 .. Len(s) : s[i] # sep
    THEN <<s>>
    ELSE LET i == CHOOSE j \in 1 .. Len(s) :
                      s[j] = sep /\ \A k \in 1 .. j - 1 : s[k] # sep
         IN  <<SubSeq(s, 1, i - 1)>> \o Split(SubSeq(s, i + 1, Len(s)), sep)

\* all strings over an alphabet up to a length
StringsUpTo(alphabet, n) == UNION {[1 .. k -> alphabet] : k \in 0 .. n}

-----------------------------------------------------------------------------
(* File system seen by the path resolver *)

\* configured roots (absolute paths); the second root lies below the
\* directory /2
ROOT_DIRS == << <<"/", "m">>, <<"/", "2", "/", "m">> >>

\* the one symbolic link of the tree: /m/2 -> /2 (a link inside the first
\* root that points outside it)
LinkAt     == << <<"m">>, <<"2">> >>
LinkTarget == << <<"2">> >>

\* parts of a path string as pathlib keeps them: empty fields and "." dropped
RECURSIVE DropDots(_)
DropDots(fields) ==
    IF fields = <<>> THEN <<>>
    ELSE IF Head(fields) = <<>> \/ Head(fields) = <<".">>
         THEN DropDots(Tail(fields))
         ELSE <<Head(fields)>> \o DropDots(Tail(fields))

Parts(s) == DropDots(Split(s, "/"))

IsAbs(s) == Len(s) > 0 /\ s[1] = "/"

\* Path(root) / rel_path: an absolute right operand replaces the left one
JoinPath(root, rel) ==
    IF IsAbs(rel) THEN Parts(rel) ELSE Parts(root) \o Parts(rel)

\* Path.resolve() (non-strict): walks the parts from the root; ".." pops the
\* last component of the path resolved so far (the parent of / is /), a
\* component that is a symbolic link is replaced by its target
RECURSIVE ResolveFrom(_, _)
ResolveFrom(done, rest) ==
    IF rest = <<>> THEN done
    ELSE LET name == Head(rest)
             next == IF name = <<".", ".">>
                     THEN (IF done = <<>> THEN <<>>
                           ELSE SubSeq(done, 1, Len(done) - 1))
                     ELSE IF Append(done, name) = LinkAt
                          THEN LinkTarget
                          ELSE Append(done, name)
         IN  ResolveFrom(next, Tail(rest))

Resolve(parts) == ResolveFrom(<<>>, parts)

\* str(path) of an absolute path given by its parts
RECURSIVE StrOfParts(_)
StrOfParts(parts) ==
    IF parts = <<>> THEN <<>>
    ELSE <<"/">> \o Head(parts) \o StrOfParts(Tail(parts))

PathStr(parts) == IF parts = <<>> THEN <<"/">> ELSE StrOfParts(parts)

-----------------------------------------------------------------------------
(* normalize_root_and_rel *)

\* ROOT_DIRS[root_index] as a Python list index: negative indexes count from
\* the end, anything else out of range raises IndexError
IndexOk(root_index) ==
    /\ root_index >= -Len(ROOT_DIRS)
    /\ root_index < Len(ROOT_DIRS)

PyIndex(root_index) ==
    IF root_index >= 0 THEN ROOT_DIRS[root_index + 1]
    ELSE ROOT_DIRS[Len(ROOT_DIRS) + root_index + 1]

\* the containment test of line 75
InsideRoot(candidate, root) ==
    StartsWith(PathStr(candidate), PathStr(Resolve(Parts(root))))

\* the outcome: the resolved candidate, or the HTTPException raised
normalize_root_and_rel(root_index, rel_path) ==
    IF ~IndexOk(root_index)
    THEN [ok |-> FALSE, status |-> 400, detail |-> "invalid root index",
          root |-> <<>>, path |-> <<>>]
    ELSE LET root      == PyIndex(root_index)
             candidate == Resolve(JoinPath(root, rel_path))
         IN  IF ~InsideRoot(candidate, root)
             THEN [ok |-> FALSE, status |-> 400, detail |-> "path outside root",
                   root |-> root, path |-> candidate]
             ELSE [ok |-> TRUE, status |-> 0, detail |-> "",
                   root |-> root, path |-> candidate]

-----------------------------------------------------------------------------
(* normalize_root_and_rel called on its own, on every input of the bounds *)

\* p_result before the call
NotCalled == [ok |-> FALSE, status |-> 0, detail |-> "not called",
              root |-> <<>>, path |-> <<>>]

PathInit ==
    /\ p_root_index \in RootIndexInputs
    /\ p_rel_path \in StringsUpTo(PathAlphabet, MaxRelLen)
    /\ p_result = NotCalled

PathCall ==
    /\ p_result = NotCalled
    /\ p_result' = normalize_root_and_rel(p_root_index, p_rel_path)
    /\ UNCHANGED <<p_root_index, p_rel_path>>

-----------------------------------------------------------------------------
(* Files the thumbnail handler meets *)

\* number of concurrent thumbnail requests
NumReq == 3

Req == 1 .. NumReq

\* what lies at a resolved path:
\*   "dir", "none" (nothing there),
\*   "video"    a file ffmpeg can take a frame from,
\*   "image"    a file that sniffs as an image and decodes,
\*   "badimage" a file that sniffs as an image and does not decode,
\*   "empty"    a 0-byte file,
\*   "locked"   a file that cannot be opened for reading
FsKind(parts) ==
    CASE parts = <<>>                   -> "dir"
      [] parts = << <<"m">> >>          -> "dir"
      [] parts = << <<"2">> >>          -> "dir"
      [] parts = << <<"2">>, <<"m">> >> -> "dir"
      [] parts = << <<"m">>, <<"m">> >> -> "video"
      [] parts = << <<"m">>, <<".", "m">> >> -> "image"
      [] parts = << <<"m">>, <<"m", ".">> >> -> "badimage"
      [] parts = << <<"m">>, <<"m", "m">> >> -> "empty"
      [] parts = << <<"m">>, <<".", "2">> >> -> "locked"
      [] parts = << <<"m", "2">> >>     -> "image"
      [] OTHER                          -> "none"

\* the (root_index, p) pairs requested
ThumbInputs ==
    { <<0, <<"m">>>>,                     \* /m/m, a video
      <<0, <<".", "m">>>>,                \* /m/.m, an image
      <<0, <<"m", ".">>>>,                \* /m/m., a broken image
      <<0, <<"m", "m">>>>,                \* /m/mm, a 0-byte file
      <<0, <<".", "2">>>>,                \* /m/.2, an unreadable file
      <<0, <<"2", "2">>>>,                \* /m/22, nothing there
      <<1, <<>>>>,                        \* /2/m, the root directory itself
      <<0, <<".", ".">>>>,                \* /, outside the root
      <<0, <<".", ".", "/", "m", "2">>>>, \* /m2, a sibling of the root
      <<2, <<"m">>>> }                    \* no such root

Exists(parts) == FsKind(parts) # "none"
IsFile(parts) == FsKind(parts) \notin {"none", "dir"}

\* magic.from_file(str(p), mime=True): raises when the file cannot be opened
SniffRaises(parts) == FsKind(parts) = "locked"
Mime(parts) ==
    CASE FsKind(parts) \in {"image", "badimage"} -> "image/jpeg"
      [] FsKind(parts) = "video"                 -> "video/mp4"
      [] FsKind(parts) = "empty"                 -> "inode/x-empty"
      [] OTHER                                   -> "application/octet-stream"
MimeIsImage(mime) == mime = "image/jpeg"

\* Image.open(p) ... save(bio, format='JPEG'): raises unless the image decodes
DecodeOk(parts) == FsKind(parts) = "image"

\* what an ffmpeg run that exits can leave on its stdout: a frame, nothing,
\* or bytes PIL cannot decode; only a video can give a frame, and a run on a
\* video can still fail
FfmpegOutputs(parts) ==
    IF FsKind(parts) = "video" THEN {"frame", "empty", "corrupt"}
    ELSE {"empty"}

\* response contents
NoBytes     == [kind |-> "none", of |-> <<>>]
Placeholder == [kind |-> "placeholder", of |-> <<>>]
ImageThumb(parts) == [kind |-> "thumb", of |-> parts]
FrameThumb(parts) == [kind |-> "frame", of |-> parts]
IsJpeg(b) == b.kind \in {"placeholder", "thumb", "frame"}

NoKey  == <<>>
NoPath == << <<"?">> >>

\* key = f"{root_index}:{path}": one key per (root_index, path) pair, as the
\* decimal of an integer holds no ":"
Key(root_index, path) == <<root_index, path>>

-----------------------------------------------------------------------------
(* api_thumb.  The handler is a coroutine on the server's event loop: it    *)
(* runs without interruption from one await to the next.  Its awaits are    *)
(* create_subprocess_exec (line 156) and proc.communicate (line 157).       *)
(* magic.from_file (line 135) and Image.open (line 141) read the source     *)
(* file with plain blocking calls: the loop's thread stays inside them      *)
(* until the read returns, and no other coroutine runs meanwhile.           *)

ThumbInit ==
    /\ thumb_cache = <<>>
    /\ t_pc = [r \in Req |-> "idle"]
    /\ t_key = [r \in Req |-> NoKey]
    /\ t_path = [r \in Req |-> NoPath]
    /\ t_proc = [r \in Req |-> "none"]
    /\ t_status = [r \in Req |-> 0]
    /\ t_body = [r \in Req |-> NoBytes]
    /\ t_work = [r \in Req |-> {}]

\* the event loop's thread held by every coroutine suspended at an await
LoopHeldWhileAwaiting == \A r \in Req : t_pc[r] \in {"idle", "done"}

\* the event loop's thread is free to run a coroutine: no handler is inside
\* a blocking read
LoopFree == \A r \in Req : t_pc[r] # "sniff"

\* the store of line 175 left out
CacheStoreSkipped(cache, key, data) == cache

\* thumb_cache[key] = data
CacheStore(cache, key, data) ==
    [k \in DOMAIN cache \cup {key} |-> IF k = key THEN data ELSE cache[k]]

\* the handler returns a response or raises: the request is over
Respond(r, key, path, status, body, work) ==
    /\ t_pc' = [t_pc EXCEPT ![r] = "done"]
    /\ t_key' = [t_key EXCEPT ![r] = key]
    /\ t_path' = [t_path EXCEPT ![r] = path]
    /\ t_status' = [t_status EXCEPT ![r] = status]
    /\ t_body' = [t_body EXCEPT ![r] = body]
    /\ t_work' = [t_work EXCEPT ![r] = work]

\* lines 168-176: placeholder when there is no data, store, return
StoreAndReturn(r, key, path, data, work) ==
    LET bytes == IF data = NoBytes THEN Placeholder ELSE data
    IN  /\ thumb_cache' = CacheStore(thumb_cache, key, bytes)
        /\ Respond(r, key, path, 200, bytes, work)

\* lines 127-135: from the cache lookup to the read of the source file, or
\* for a directory to the first await
ThumbStart(r, root_index, path) ==
    /\ LoopFree
    /\ t_pc[r] = "idle"
    /\ LET key == Key(root_index, path)
           n   == normalize_root_and_rel(root_index, path)
           p   == n.path
       IN  IF key \in DOMAIN thumb_cache
           THEN /\ Respond(r, key, NoPath, 200, thumb_cache[key], {})
                /\ UNCHANGED <<thumb_cache, t_proc>>
           ELSE IF ~n.ok
           THEN /\ Respond(r, key, NoPath, n.status, NoBytes, {"resolve"})
                /\ UNCHANGED <<thumb_cache, t_proc>>
           ELSE IF ~Exists(p)
           THEN /\ Respond(r, key, p, 404, NoBytes, {"resolve"})
                /\ UNCHANGED <<thumb_cache, t_proc>>
           ELSE /\ t_pc' = [t_pc EXCEPT ![r] = IF IsFile(p) THEN "sniff" ELSE "exec"]
                /\ t_key' = [t_key EXCEPT ![r] = key]
                /\ t_path' = [t_path EXCEPT ![r] = p]
                /\ t_work' = [t_work EXCEPT ![r] = {"resolve"}]
                /\ UNCHANGED <<thumb_cache, t_proc, t_status, t_body>>
    /\ UNCHANGED <<pathVars, mediaVars, listVars>>

\* lines 135-156: the blocking read of the source file returns or raises,
\* and the handler runs on to its return or to the first await
ThumbSniff(r) ==
    /\ t_pc[r] = "sniff"
    /\ LET key == t_key[r]
           p   == t_path[r]
       IN  IF SniffRaises(p)
           THEN \* the exception leaves the handler: 500
                /\ Respond(r, key, p, 500, NoBytes, t_work[r] \cup {"sniff"})
                /\ UNCHANGED <<thumb_cache, t_proc>>
           ELSE IF MimeIsImage(Mime(p))
           THEN /\ StoreAndReturn(r, key, p,
                       IF DecodeOk(p) THEN ImageThumb(p) ELSE NoBytes,
                       t_work[r] \cup {"sniff", "decode"})
                /\ UNCHANGED t_proc
           ELSE /\ t_pc' = [t_pc EXCEPT ![r] = "exec"]
                /\ t_work' = [t_work EXCEPT ![r] = @ \cup {"sniff"}]
                /\ UNCHANGED <<thumb_cache, t_key, t_path, t_proc, t_status, t_body>>
    /\ UNCHANGED <<pathVars, mediaVars, listVars>>

\* line 156 resumes: the subprocess runs
ThumbExecOk(r) ==
    /\ LoopFree
    /\ t_pc[r] = "exec"
    /\ t_pc' = [t_pc EXCEPT ![r] = "communicate"]
    /\ t_proc' = [t_proc EXCEPT ![r] = "running"]
    /\ t_work' = [t_work EXCEPT ![r] = @ \cup {"extract"}]
    /\ UNCHANGED <<thumb_cache, t_key, t_path, t_status, t_body>>
    /\ UNCHANGED <<pathVars, mediaVars, listVars>>

\* line 156 raises (no ffmpeg, no process slot): lines 165-176
ThumbExecFails(r) ==
    /\ LoopFree
    /\ t_pc[r] = "exec"
    /\ StoreAndReturn(r, t_key[r], t_path[r], NoBytes, t_work[r])
    /\ UNCHANGED t_proc
    /\ UNCHANGED <<pathVars, mediaVars, listVars>>

\* the subprocess stops making progress and never exits
ProcHangs(r) ==
    /\ t_proc[r] = "running"
    /\ t_proc' = [t_proc EXCEPT ![r] = "hung"]
    /\ UNCHANGED <<thumb_cache, t_pc, t_key, t_path, t_status, t_body, t_work>>
    /\ UNCHANGED <<pathVars, mediaVars, listVars>>

\* the subprocess exits and line 157 resumes with its output: lines 158-176
ThumbCommunicate(r, out) ==
    /\ LoopFree
    /\ t_pc[r] = "communicate"
    /\ t_proc[r] = "running"
    /\ out \in FfmpegOutputs(t_path[r])
    /\ t_proc' = [t_proc EXCEPT ![r] = "exited"]
    /\ StoreAndReturn(r, t_key[r], t_path[r],
           IF out = "frame" THEN FrameThumb(t_path[r]) ELSE NoBytes,
           t_work[r] \cup (IF out = "empty" THEN {} ELSE {"decode"}))
    /\ UNCHANGED <<pathVars, mediaVars, listVars>>

ThumbNext ==
    \/ \E r \in Req : \E i \in ThumbInputs : ThumbStart(r, i[1], i[2])
    \/ \E r \in Req : ThumbSniff(r)
    \/ \E r \in Req : ThumbExecOk(r)
    \/ \E r \in Req : ThumbExecFails(r)
    \/ \E r \in Req : ProcHangs(r)
    \/ \E r \in Req : \E out \in {"frame", "empty", "corrupt"} :
           ThumbCommunicate(r, out)

-----------------------------------------------------------------------------
(* media and iter_file_range, for one request on the file /m/m while other  *)
(* processes may change that file                                           *)

\* largest size of the file on disk
MaxFileSize == 3

\* how often other processes change the file during the request
MaxFileChanges == 1

\* longest Range header value
MaxHeaderLen == 5

\* chunk_size of iter_file_range, scaled down from 1 << 20 so that a body
\* takes several chunks
chunk_size == 2

\* characters a Range header is made of
RangeAlphabet == {"b", "=", "-", "0", "2"}

Digits == {"0", "1", "2", "3", "4", "5", "6", "7", "8", "9"}

DigitVal(c) ==
    CASE c = "0" -> 0 [] c = "1" -> 1 [] c = "2" -> 2 [] c = "3" -> 3
      [] c = "4" -> 4 [] c = "5" -> 5 [] c = "6" -> 6 [] c = "7" -> 7
      [] c = "8" -> 8 [] c = "9" -> 9

\* int(s) on a string of the alphabet: ValueError unless s is a non-empty
\* string of decimal digits
IntOk(s) == Len(s) > 0 /\ \A i \in 1 .. Len(s) : s[i] \in Digits

RECURSIVE IntOf(_)
IntOf(s) ==
    IF s = <<>> THEN 0
    ELSE 10 * IntOf(SubSeq(s, 1, Len(s) - 1)) + DigitVal(s[Len(s)])

\* the try block of lines 205-209 raises (a split that does not give two
\* fields cannot be unpacked; int() raises on a non-number)
RangeRaises(range_header) ==
    LET f == Split(range_header, "=")
    IN  \/ Len(f) # 2
        \/ LET g == Split(f[2], "-")
           IN  \/ Len(g) # 2
               \/ (g[1] # <<>> /\ ~IntOk(g[1]))
               \/ (g[2] # <<>> /\ ~IntOk(g[2]))

\* lines 205-212: (start, end) of a Range header for a file of a size
ParseRange(range_header, size) ==
    IF RangeRaises(range_header)
    THEN [start |-> 0, end |-> size - 1]
    ELSE LET g == Split(Split(range_header, "=")[2], "-")
         IN  [start |-> IF g[1] # <<>> THEN IntOf(g[1]) ELSE 0,
              end   |-> IF g[2] # <<>> THEN IntOf(g[2]) ELSE size - 1]

\* request.headers.get('range'): absent, or a string
NoHeader == [present |-> FALSE, value |-> <<>>]
RangeHeaders ==
    {NoHeader} \cup
    {[present |-> TRUE, value |-> v] : v \in StringsUpTo(RangeAlphabet, MaxHeaderLen)}

\* the (root_index, full_path) pairs requested
MediaInputs ==
    { <<0, <<"m">>>>,            \* /m/m, the file
      <<0, <<"2", "2">>>>,       \* /m/22, nothing there
      <<1, <<>>>>,               \* /2/m, a directory
      <<0, <<".", ".">>>> }      \* /, outside the root

NoResp == [content_range |-> <<>>, content_length |-> 0,
           has_length |-> FALSE, accept_ranges |-> FALSE]
\* end_arg is the end the handler passed, end the local the generator rebinds
NoIter == [start |-> 0, end_arg |-> 0, end |-> 0, to_read |-> 0, pos |-> 0]

\* the bytes of a file of a size: each byte is its offset + 1
FileOfSize(n) == [i \in 1 .. n |-> i]

MediaInit ==
    /\ m_file \in {FileOfSize(n) : n \in 0 .. MaxFileSize}
    /\ m_header = NoHeader
    /\ m_pc = "idle"
    /\ m_status = 0
    /\ m_resp = NoResp
    /\ m_iter = NoIter
    /\ m_body = <<>>
    /\ m_open = FALSE
    /\ m_changes = 0

\* the handler raises HTTPException or returns a Response without a stream
MediaEnds(status) ==
    /\ m_pc' = "done"
    /\ m_status' = status
    /\ UNCHANGED <<m_resp, m_iter, m_body, m_open>>

\* the handler returns a StreamingResponse over iter_file_range(p, start, end)
MediaStreams(status, resp, start, end) ==
    /\ m_pc' = "respond"
    /\ m_status' = status
    /\ m_resp' = resp
    /\ m_iter' = [NoIter EXCEPT !.start = start, !.end_arg = end, !.end = end]
    /\ UNCHANGED <<m_body, m_open>>

\* line 213, as a careless comparison would have it
RangeNotSatisfiableStrict(start, size) == start > size

\* line 213: if start >= size
RangeNotSatisfiable(start, size) == start >= size

\* lines 197-225: the handler
MediaStart(root_index, full_path, range_header) ==
    /\ LoopFree
    /\ m_pc = "idle"
    /\ m_header' = range_header
    /\ LET n    == normalize_root_and_rel(root_index, full_path)
           size == Len(m_file)
           rg   == ParseRange(range_header.value, size)
       IN  IF ~n.ok THEN MediaEnds(n.status)
           ELSE IF ~Exists(n.path) \/ ~IsFile(n.path) THEN MediaEnds(404)
           ELSE IF range_header.present /\ range_header.value # <<>>
           THEN IF RangeNotSatisfiable(rg.start, size)
                THEN MediaEnds(416)
                ELSE MediaStreams(206,
                         [content_range |-> <<rg.start, rg.end, size>>,
                          content_length |-> rg.end - rg.start + 1,
                          has_length |-> TRUE, accept_ranges |-> TRUE],
                         rg.start, rg.end)
           ELSE MediaStreams(200, [NoResp EXCEPT !.accept_ranges = TRUE],
                             0, size - 1)
    /\ UNCHANGED <<m_file, m_changes>>
    /\ UNCHANGED <<pathVars, thumbVars, listVars>>

\* lines 180-185: the generator starts: stat, clamp, open, seek
IterOpen ==
    /\ LoopFree
    /\ m_pc = "respond"
    /\ LET size == Len(m_file)
           end  == IF m_iter.end >= size THEN size - 1 ELSE m_iter.end
       IN  m_iter' = [m_iter EXCEPT !.end = end, !.pos = m_iter.start,
                                    !.to_read = end - m_iter.start + 1]
    /\ m_open' = TRUE
    /\ m_pc' = "reading"
    /\ UNCHANGED <<m_file, m_header, m_status, m_resp, m_body, m_changes>>
    /\ UNCHANGED <<pathVars, thumbVars, listVars>>

\* f.read(n) at the handle's position: the bytes the file holds there now
FileRead(file, pos, n) ==
    SubSeq(file, pos + 1, IF pos + n <= Len(file) THEN pos + n ELSE Len(file))

\* f.read(to_read) in place of f.read(min(chunk_size, to_read))
MinIsSecond(a, b) == b

Min(a, b) == IF a <= b THEN a ELSE b

\* lines 186-191: one turn of the loop that yields a chunk
IterYield ==
    /\ LoopFree
    /\ m_pc = "reading"
    /\ m_iter.to_read > 0
    /\ LET read == FileRead(m_file, m_iter.pos, Min(chunk_size, m_iter.to_read))
       IN  /\ read # <<>>
           /\ m_body' = Append(m_body, read)
           /\ m_iter' = [m_iter EXCEPT !.pos = @ + Len(read),
                                       !.to_read = @ - Len(read)]
    /\ UNCHANGED <<m_file, m_header, m_pc, m_status, m_resp, m_open, m_changes>>
    /\ UNCHANGED <<pathVars, thumbVars, listVars>>

\* lines 186-189 and the end of the with block: the loop ends (nothing left
\* to read, or a read gave no bytes) and the handle is closed
IterEnd ==
    /\ LoopFree
    /\ m_pc = "reading"
    /\ \/ m_iter.to_read <= 0
       \/ FileRead(m_file, m_iter.pos, Min(chunk_size, m_iter.to_read)) = <<>>
    /\ m_open' = FALSE
    /\ m_pc' = "done"
    /\ UNCHANGED <<m_file, m_header, m_status, m_resp, m_iter, m_body, m_changes>>
    /\ UNCHANGED <<pathVars, thumbVars, listVars>>

\* the client disconnects while the response is streamed: the server stops
\* iterating the generator, which is left where it is: not started, or
\* suspended at the yield of line 190 with its handle open
MediaDisconnect ==
    /\ \/ m_pc = "respond"
       \/ m_pc = "reading" /\ m_body # <<>>
    /\ m_pc' = "cancelled"
    /\ UNCHANGED <<m_file, m_header, m_status, m_resp, m_iter, m_body, m_open,
                   m_changes>>
    /\ UNCHANGED <<pathVars, thumbVars, listVars>>

\* a generator closed without leaving the with block of line 183
IterCloseLeaks ==
    /\ LoopFree
    /\ m_pc = "cancelled"
    /\ m_pc' = "closed"
    /\ UNCHANGED <<m_file, m_header, m_status, m_resp, m_iter, m_body, m_open,
                   m_changes>>
    /\ UNCHANGED <<pathVars, thumbVars, listVars>>

\* the abandoned generator is closed (the event loop's asynchronous-generator
\* finalizer calls aclose): GeneratorExit is raised at the yield and leaves
\* the with block of line 183, which closes the handle
IterClose ==
    /\ LoopFree
    /\ m_pc = "cancelled"
    /\ m_pc' = "closed"
    /\ m_open' = FALSE
    /\ UNCHANGED <<m_file, m_header, m_status, m_resp, m_iter, m_body, m_changes>>
    /\ UNCHANGED <<pathVars, thumbVars, listVars>>

\* another process appends a byte to the file
FileGrows ==
    /\ m_changes < MaxFileChanges
    /\ Len(m_file) < MaxFileSize
    /\ m_file' = Append(m_file, Len(m_file) + 1)
    /\ m_changes' = m_changes + 1
    /\ UNCHANGED <<m_header, m_pc, m_status, m_resp, m_iter, m_body, m_open>>
    /\ UNCHANGED <<pathVars, thumbVars, listVars>>

\* another process truncates the file by a byte
FileShrinks ==
    /\ m_changes < MaxFileChanges
    /\ Len(m_file) > 0
    /\ m_file' = SubSeq(m_file, 1, Len(m_file) - 1)
    /\ m_changes' = m_changes + 1
    /\ UNCHANGED <<m_header, m_pc, m_status, m_resp, m_iter, m_body, m_open>>
    /\ UNCHANGED <<pathVars, thumbVars, listVars>>

\* a request arrives
MediaRequest ==
    /\ m_pc = "idle"
    /\ \E i \in MediaInputs : \E h \in RangeHeaders : MediaStart(i[1], i[2], h)

MediaNext ==
    \/ MediaRequest
    \/ IterOpen
    \/ IterYield
    \/ IterEnd
    \/ MediaDisconnect
    \/ IterClose
    \/ FileGrows
    \/ FileShrinks

-----------------------------------------------------------------------------
(* list_dir and api_list *)

\* a listed directory holds at most MaxEntries entries; their st_size is at
\* most MaxStatSize bytes and their st_mtime at most MaxMtimeHalves half
\* seconds
MaxEntries == 3
MaxStatSize == 1
MaxMtimeHalves == 2

\* code point of a character
Code(c) ==
    CASE c = "." -> 46 [] c = "/" -> 47 [] c = "2" -> 50
      [] c = "A" -> 65 [] c = "B" -> 66
      [] c = "a" -> 97 [] c = "b" -> 98 [] c = "m" -> 109

\* str.lower()
LowerChar(c) == CASE c = "A" -> "a" [] c = "B" -> "b" [] OTHER -> c
Lower(s) == [i \in 1 .. Len(s) |-> LowerChar(s[i])]

\* needle in s
Contains(s, needle) ==
    \E i \in 0 .. Len(s) - Len(needle) : SubSeq(s, i + 1, i + Len(needle)) = needle

\* a string as a sort key: its code points; an integer as a sort key
StrKey(s) == [i \in 1 .. Len(s) |-> Code(s[i])]
IntKey(n) == <<n>>

\* key a < key b: code points (or integers) compared from the left, a proper
\* prefix first
RECURSIVE KeyLess(_, _)
KeyLess(a, b) ==
    IF b = <<>> THEN FALSE
    ELSE IF a = <<>> THEN TRUE
    ELSE IF Head(a) = Head(b) THEN KeyLess(Tail(a), Tail(b))
    ELSE Head(a) < Head(b)

Reverse(s) == [i \in 1 .. Len(s) |-> s[Len(s) + 1 - i]]

\* the stable sort of list.sort and sorted(): an element goes behind every
\* element placed before it whose key is not greater
RECURSIVE InsertByKey(_, _)
InsertByKey(placed, x) ==
    IF placed = <<>> THEN <<x>>
    ELSE IF KeyLess(x.key, Head(placed).key) THEN <<x>> \o placed
    ELSE <<Head(placed)>> \o InsertByKey(Tail(placed), x)

RECURSIVE SortPairs(_)
SortPairs(pairs) ==
    IF pairs = <<>> THEN <<>>
    ELSE InsertByKey(SortPairs(SubSeq(pairs, 1, Len(pairs) - 1)), pairs[Len(pairs)])

\* items.sort(key=..., reverse=...): keys[i] is the key of items[i]; with
\* reverse the list is reversed, sorted and reversed again, which keeps the
\* elements of equal key in their original order
ListSort(items, keys, reverse) ==
    LET pairs  == [i \in 1 .. Len(items) |-> [key |-> keys[i], item |-> items[i]]]
        placed == IF reverse THEN Reverse(SortPairs(Reverse(pairs)))
                  ELSE SortPairs(pairs)
    IN  [i \in 1 .. Len(items) |-> placed[i].item]

\* sorted() left out: the names stay in the order iterdir yields them
sortedAsListed(names) == names

\* sorted(base.iterdir()): paths of one directory compare by their names,
\* code point by code point
sorted(names) ==
    ListSort(names, [i \in 1 .. Len(names) |-> StrKey(names[i])], FALSE)

\* os.path.join(a, b) for a name b
OsPathJoin(a, b) ==
    IF a = <<>> \/ a[Len(a)] = "/" THEN a \o b ELSE a \o <<"/">> \o b

\* str.lstrip('/')
RECURSIVE LStripSlash(_)
LStripSlash(s) ==
    IF s # <<>> /\ Head(s) = "/" THEN LStripSlash(Tail(s)) ELSE s

\* the q parameter; an absent q is None
NoQuery == [present |-> FALSE, value |-> <<>>]
\* `q and q.lower() not in name.lower()`: the entry is skipped
Skipped(q, name) ==
    /\ q.present /\ q.value # <<>>
    /\ ~Contains(Lower(name), Lower(q.value))

\* the dict appended for one entry; st_mtime is kept in half seconds and
\* int() truncates it to whole seconds
Entry(rel, name, stat) ==
    [name     |-> name,
     is_dir   |-> stat.is_dir,
     size     |-> stat.st_size,
     mtime    |-> stat.st_mtime \div 2,
     rel_path |-> LStripSlash(OsPathJoin(rel, name))]

RECURSIVE Entries(_, _, _, _)
Entries(dir, rel, q, names) ==
    IF names = <<>> THEN <<>>
    ELSE IF Skipped(q, Head(names)) THEN Entries(dir, rel, q, Tail(names))
    ELSE <<Entry(rel, Head(names), dir[Head(names)])>>
         \o Entries(dir, rel, q, Tail(names))

\* list_dir, with the directory's content and the order in which
\* base.iterdir() yields it, which is of the file system's choosing
list_dir(root_index, rel, q, dir, listed) ==
    LET base == normalize_root_and_rel(root_index, rel)
    IN  IF ~base.ok
        THEN [status |-> base.status, detail |-> base.detail, entries |-> <<>>]
        ELSE IF ~Exists(base.path)
        THEN [status |-> 404, detail |-> "not found", entries |-> <<>>]
        ELSE IF IsFile(base.path)
        THEN [status |-> 400, detail |-> "not a directory", entries |-> <<>>]
        ELSE [status |-> 200, detail |-> "",
              entries |-> Entries(dir, rel, q, sorted(listed))]

\* the sort parameter; an absent one takes the default 'name'
NoSort == [present |-> FALSE, value |-> ""]
SortParam(sort) == IF sort.present THEN sort.value ELSE "name"

\* api_list
api_list(root_index, path, q, sort, dir, listed) ==
    LET res   == list_dir(root_index, path, q, dir, listed)
        items == res.entries
        n     == Len(items)
    IN  IF res.status # 200 THEN [status |-> res.status, items |-> <<>>]
        ELSE [status |-> 200,
              items  |->
                CASE SortParam(sort) = "name" ->
                       ListSort(items, [i \in 1 .. n |-> StrKey(Lower(items[i].name))], FALSE)
                  [] SortParam(sort) = "date" ->
                       ListSort(items, [i \in 1 .. n |-> IntKey(items[i].mtime)], TRUE)
                  [] SortParam(sort) = "size" ->
                       ListSort(items, [i \in 1 .. n |-> IntKey(items[i].size)], TRUE)
                  [] OTHER -> items]

\* names the entries of the listed directory can have
ListNames == { <<"B">>, <<"a">>, <<"b">>, <<"a", "B">> }

\* what stat() can say of an entry: a regular file, or a subdirectory
EntryStats ==
    [is_dir : {FALSE}, st_size : 0 .. MaxStatSize, st_mtime : 0 .. MaxMtimeHalves]
    \cup [is_dir : {TRUE}, st_size : {0}, st_mtime : {0}]

\* the contents a directory can have
DirContents ==
    UNION { [names -> EntryStats] :
            names \in {ns \in SUBSET ListNames : Cardinality(ns) <= MaxEntries} }

\* the orders in which iterdir can yield the names
ListingsOf(names) ==
    { listed \in [1 .. Cardinality(names) -> names] :
          \A i, j \in 1 .. Cardinality(names) : listed[i] = listed[j] => i = j }

\* the (root_index, p) pairs requested: the directory /2/m twice, a regular
\* file, a missing path, no such root
ListInputs ==
    { <<1, <<>>>>, <<1, <<".">>>>, <<0, <<"m">>>>, <<0, <<"2", "2">>>>, <<2, <<>>>> }

QueryInputs ==
    { NoQuery,
      [present |-> TRUE, value |-> <<>>],
      [present |-> TRUE, value |-> <<"b">>],
      [present |-> TRUE, value |-> <<"A">>] }

SortInputs ==
    { NoSort } \cup { [present |-> TRUE, value |-> v] : v \in {"name", "date", "size", "type"} }

ListInit ==
    /\ l_dir \in DirContents
    /\ \E i \in ListInputs : l_root_index = i[1] /\ l_path = i[2]
    /\ l_q \in QueryInputs
    /\ l_sort \in SortInputs
    /\ l_status = 0
    /\ l_items = <<>>

\* one GET /api/list/{root_index}
ListRequest ==
    /\ LoopFree
    /\ l_status = 0
    /\ \E listed \in ListingsOf(DOMAIN l_dir) :
           LET res == api_list(l_root_index, l_path, l_q, l_sort, l_dir, listed)
           IN  /\ l_status' = res.status
               /\ l_items' = res.items
    /\ UNCHANGED <<l_dir, l_root_index, l_path, l_q, l_sort>>
    /\ UNCHANGED <<pathVars, thumbVars, mediaVars>>

-----------------------------------------------------------------------------
(* Specifications *)

\* the parts of the state a specification leaves alone
PathIdle ==
    /\ p_root_index = 0
    /\ p_rel_path = <<>>
    /\ p_result = NotCalled

MediaIdle ==
    /\ m_file = <<>>
    /\ m_header = NoHeader
    /\ m_pc = "idle"
    /\ m_status = 0
    /\ m_resp = NoResp
    /\ m_iter = NoIter
    /\ m_body = <<>>
    /\ m_open = FALSE
    /\ m_changes = 0

ListIdle ==
    /\ l_dir = <<>>
    /\ l_root_index = 0
    /\ l_path = <<>>
    /\ l_q = NoQuery
    /\ l_sort = NoSort
    /\ l_status = 0
    /\ l_items = <<>>

\* the thumbnail requests
Init == ThumbInit /\ PathIdle /\ MediaIdle /\ ListIdle
Next == ThumbNext
Spec == Init /\ [][Next]_vars

\* the thumbnail requests, with every blocking read returning and the event
\* loop resuming every coroutine whose await has completed; requests need not arrive, and nothing makes a
\* subprocess exit
ThumbExec(r) == ThumbExecOk(r) \/ ThumbExecFails(r)
ThumbResumes(r) == \E out \in {"frame", "empty", "corrupt"} : ThumbCommunicate(r, out)
FairSpec ==
    Spec /\ \A r \in Req : /\ WF_vars(ThumbSniff(r))
                           /\ WF_vars(ThumbExec(r))
                           /\ WF_vars(ThumbResumes(r))

\* normalize_root_and_rel on its own
PathSpecInit == PathInit /\ ThumbInit /\ MediaIdle /\ ListIdle
PathSpecNext == PathCall /\ UNCHANGED <<thumbVars, mediaVars, listVars>>
PathSpec == PathSpecInit /\ [][PathSpecNext]_vars

\* one media request
MediaSpecInit == MediaInit /\ ThumbInit /\ PathIdle /\ ListIdle
MediaSpecNext == MediaNext
MediaSpec == MediaSpecInit /\ [][MediaSpecNext]_vars

\* one media request, with the server iterating the generator as long as the
\* client is connected and the event loop closing an abandoned generator;
\* nothing makes a request arrive, the client disconnect or the file change
MediaFairSpec ==
    /\ MediaSpec
    /\ WF_vars(IterOpen) /\ WF_vars(IterYield) /\ WF_vars(IterEnd)
    /\ WF_vars(IterClose)

\* one listing request
ListSpecInit == ListInit /\ ThumbInit /\ PathIdle /\ MediaIdle
ListSpecNext == ListRequest
ListSpec == ListSpecInit /\ [][ListSpecNext]_vars

-----------------------------------------------------------------------------
(* Claims *)

\* a generation (sniff / decode / frame extraction) is under way
InFlight(r) == t_pc[r] \in {"exec", "communicate"}

\* the request found no cache entry when it started
Missed(r) == t_work[r] # {}

\* the request has returned JPEG bytes
Returned(r) == t_pc[r] = "done" /\ t_status[r] = 200

\* C1 (Spec): single-flight. No two requests for the same key have a
\* generation in flight at the same time, so requests that arrive while the
\* key is uncached share one generation attempt.
C1_SingleFlight ==
    \A r1, r2 \in Req :
        (r1 # r2 /\ InFlight(r1) /\ InFlight(r2)) => t_key[r1] # t_key[r2]

\* C2 (Spec): requests for the same key that each started before the key was
\* cached return the same bytes.
C2_OverlappingSameBytes ==
    \A r1, r2 \in Req :
        (/\ Returned(r1) /\ Returned(r2)
         /\ Missed(r1) /\ Missed(r2)
         /\ t_key[r1] = t_key[r2])
        => t_body[r1] = t_body[r2]

\* C3 (Spec): cache immutability. No step removes a key of thumb_cache or
\* changes the bytes stored under it.
C3_CacheImmutable ==
    [][\A k \in DOMAIN thumb_cache :
           k \in DOMAIN thumb_cache' /\ thumb_cache'[k] = thumb_cache[k]]_vars

\* C4 (Spec): cache hit. A request that starts after a request for the same
\* key has returned bytes b returns b at once, having done no path
\* resolution, sniffing, decoding or extraction.
C4_LaterRequestHits ==
    [][\A r, r0 \in Req :
           (/\ t_pc[r] = "idle" /\ t_pc'[r] # "idle"
            /\ Returned(r0) /\ t_key'[r] = t_key[r0])
           => (/\ t_pc'[r] = "done" /\ t_status'[r] = 200
               /\ t_body'[r] = t_body[r0]
               /\ t_work'[r] = {})]_vars

\* a path lies in a root at a directory boundary: it is the root or the
\* root's components are its first components
BelowOrEqual(candidate, root) ==
    /\ Len(root) <= Len(candidate)
    /\ SubSeq(candidate, 1, Len(root)) = root

\* C5 (PathSpec): sandbox containment. For a root index of
\* 0 .. len(ROOT_DIRS)-1 the call returns the candidate exactly when the
\* canonical candidate is the canonical root or lies below it, and fails
\* with 400 'path outside root' otherwise.
C5_Containment ==
    (p_result # NotCalled /\ p_root_index \in 0 .. Len(ROOT_DIRS) - 1)
    => LET inside == BelowOrEqual(p_result.path, Resolve(Parts(p_result.root)))
       IN  /\ p_result.ok <=> inside
           /\ ~inside => (p_result.status = 400
                          /\ p_result.detail = "path outside root")

\* C6 (PathSpec): root index bounds. Every root index outside
\* 0 .. len(ROOT_DIRS)-1, negative ones included, fails with
\* 400 'invalid root index'.
C6_RootIndexBounds ==
    (p_result # NotCalled /\ p_root_index \notin 0 .. Len(ROOT_DIRS) - 1)
    => (/\ ~p_result.ok
        /\ p_result.status = 400
        /\ p_result.detail = "invalid root index")

\* C7 (Spec): thumbnail degradation. A finished request whose path passed
\* the resolver has returned JPEG bytes, or 404 for a target that does not
\* exist: every failure inside the handler gives the placeholder and no
\* other status is surfaced. (The resolver's own 400 responses, which the
\* claim does not allow either, are left aside here.)
C7_JpegOrNotFound ==
    \A r \in Req :
        (t_pc[r] = "done" /\ t_path[r] # NoPath)
        => \/ (t_status[r] = 200 /\ IsJpeg(t_body[r]))
           \/ (t_status[r] = 404 /\ ~Exists(t_path[r]))

\* C8 (FairSpec): bounded extraction. A request that waits for its extractor
\* subprocess eventually completes, whatever the subprocess does.
C8_ExtractionCompletes ==
    \A r \in Req : (t_pc[r] = "communicate") ~> (t_pc[r] = "done")

\* the body sent so far: the chunks one after the other
RECURSIVE Flatten(_)
Flatten(chunks) ==
    IF chunks = <<>> THEN <<>> ELSE Head(chunks) \o Flatten(Tail(chunks))

\* a media request on the regular file with a Range header that parses
RangedFileRequest ==
    /\ m_pc # "idle"
    /\ m_status \notin {400, 404}
    /\ m_header.present /\ m_header.value # <<>>
    /\ ~RangeRaises(m_header.value)

\* C9 (MediaSpec): partial-content consistency. With the file unchanged
\* during the request, a parsed range with start < S is answered 206 with
\* Content-Range start-end/S where end is clamped to S-1, Content-Length
\* end-start+1, and a body of exactly the file's bytes start..end.
C9_PartialContent ==
    LET S     == Len(m_file)
        rg    == ParseRange(m_header.value, S)
        end   == IF rg.end >= S THEN S - 1 ELSE rg.end
    IN  (RangedFileRequest /\ m_changes = 0 /\ rg.start < S)
        => /\ m_status = 206
           /\ m_resp.content_range = <<rg.start, end, S>>
           /\ m_resp.has_length /\ m_resp.content_length = end - rg.start + 1
           /\ m_pc = "done"
              => /\ Flatten(m_body) = SubSeq(m_file, rg.start + 1, end + 1)
                 /\ Len(Flatten(m_body)) = m_resp.content_length

\* C10 (MediaSpec): ByteRange invariant. Every 206 response advertises
\* 0 <= start <= end < totalSize and a positive Content-Length.
C10_ByteRangeInvariant ==
    m_status = 206
    => /\ 0 <= m_resp.content_range[1]
       /\ m_resp.content_range[1] <= m_resp.content_range[2]
       /\ m_resp.content_range[2] < m_resp.content_range[3]
       /\ m_resp.content_length > 0

\* the step in which the handler answers a request on the regular file that
\* carries a Range header
AnswersRanged ==
    /\ m_pc = "idle" /\ m_pc' # "idle"
    /\ m_status' \notin {400, 404}
    /\ m_header'.present /\ m_header'.value # <<>>

\* C11 (MediaSpec): 416 exactly on an out-of-range start. A parseable Range
\* header on a file of size S is answered 416 if and only if start >= S, and
\* a 416 response has ended without a stream: no handle opened, no byte sent.
C11_416IffStartBeyond ==
    [][/\ (AnswersRanged /\ ~RangeRaises(m_header'.value))
          => (m_status' = 416
              <=> ParseRange(m_header'.value, Len(m_file)).start >= Len(m_file))
       /\ m_status' = 416
          => (m_pc' = "done" /\ m_body' = <<>> /\ ~m_open')]_vars

\* a parseable header got 416
C11_Witness ==
    /\ m_status = 416
    /\ m_header.present /\ ~RangeRaises(m_header.value)
    /\ m_changes = 0 /\ Len(m_file) > 0

\* C12 (MediaSpec): permissive range parsing. A Range header that does not
\* parse, on a regular file of any size (0 bytes included), is answered as a
\* request for the whole file: no error status, and the stream is given
\* start = 0 and end = size - 1.
C12_MalformedIsWholeFile ==
    [][(AnswersRanged /\ RangeRaises(m_header'.value))
       => /\ m_status' \in {200, 206}
          /\ m_pc' = "respond"
          /\ m_iter'.start = 0 /\ m_iter'.end = Len(m_file) - 1]_vars

\* a sequence is the beginning of another
IsPrefix(a, b) == Len(a) <= Len(b) /\ SubSeq(b, 1, Len(a)) = a

\* C13 (MediaSpec): full-file response. A regular file of size S (0
\* included) that does not change during the request, asked for without a
\* Range header, is answered 200 with Accept-Ranges: bytes; the body comes in
\* chunks of at most chunk_size bytes which, put together, are the file's S
\* bytes in order.
C13_FullFile ==
    (/\ m_pc # "idle" /\ m_status \notin {400, 404}
     /\ ~m_header.present /\ m_changes = 0)
    => /\ m_status = 200
       /\ m_resp.accept_ranges
       /\ \A i \in 1 .. Len(m_body) :
              Len(m_body[i]) >= 1 /\ Len(m_body[i]) <= chunk_size
       /\ IsPrefix(Flatten(m_body), m_file)
       /\ m_pc = "done" => Flatten(m_body) = m_file

\* a whole file that took more than one chunk has been sent
C13_Witness ==
    /\ m_pc = "done" /\ m_status = 200
    /\ ~m_header.present /\ m_changes = 0
    /\ Len(m_body) >= 2 /\ Flatten(m_body) = m_file

C15_StreamLengthBound ==
    m_status \in {200, 206}
    => /\ Len(Flatten(m_body)) <= m_iter.end_arg - m_iter.start + 1
       /\ \A i \in 1 .. Len(m_body) : Len(m_body[i]) <= chunk_size

\* C14 (ListSpec): listing order. For every directory content and every sort
\* key among name, date and size (an omitted sort parameter counting as name),
\* the items returned are a permutation of the entries the filter keeps,
\* ordered ascending by lower-cased name, or descending by modification time
\* (the whole seconds the entries carry), or descending by size; entries of
\* equal key follow each other by name, so that the order depends on the
\* entry set and the sort key alone, not on the order the directory was read
\* in.
Kept == {name \in DOMAIN l_dir : ~Skipped(l_q, name)}
SortKeyOf(item) ==
    CASE SortParam(l_sort) = "name" -> StrKey(Lower(item.name))
      [] SortParam(l_sort) = "date" -> IntKey(0 - item.mtime)
      [] OTHER -> IntKey(0 - item.size)
C14_ListingOrder ==
    (l_status = 200 /\ SortParam(l_sort) \in {"name", "date", "size"})
    => /\ Len(l_items) = Cardinality(Kept)
       /\ {l_items[i].name : i \in 1 .. Len(l_items)} = Kept
       /\ \A i \in 1 .. Len(l_items) :
              l_items[i] = Entry(l_path, l_items[i].name, l_dir[l_items[i].name])
       /\ \A i, j \in 1 .. Len(l_items) :
              i < j => \/ KeyLess(SortKeyOf(l_items[i]), SortKeyOf(l_items[j]))
                       \/ /\ SortKeyOf(l_items[i]) = SortKeyOf(l_items[j])
                          /\ KeyLess(StrKey(l_items[i].name), StrKey(l_items[j].name))
\* witness: three entries listed by date, two of them of the same second
C14_Witness ==
    /\ l_status = 200 /\ l_sort = [present |-> TRUE, value |-> "date"]
    /\ Len(l_items) = 3
    /\ l_items[1].mtime > l_items[2].mtime
    /\ l_items[2].mtime = l_items[3].mtime
    /\ l_dir[l_items[2].name].st_mtime # l_dir[l_items[3].name].st_mtime

\* request r can take its next step. Whether a handler can start does not
\* depend on what is asked of it, so that is tested with the request for a
\* root that does not exist.
CanStep(r) ==
    /\ t_pc[r] = "idle" => ENABLED ThumbStart(r, Len(ROOT_DIRS), <<"m">>)
    /\ t_pc[r] = "exec"
       => ENABLED ThumbExecOk(r) /\ ENABLED ThumbExecFails(r)
    /\ (t_pc[r] = "communicate" /\ t_proc[r] = "running")
       => ENABLED ThumbResumes(r)

\* C16 (Spec): non-blocking extraction. While a request is suspended
\* launching its extractor subprocess or waiting for it, every other
\* thumbnail request can start, take its next step and complete, and the
\* media endpoint can be served: the suspended request holds nothing that
\* stops them. (A request that is inside a blocking file read
\* at that moment stops them for the time of its read; that is C17's
\* matter, and such states are left aside here.)
C16_NonBlockingExtraction ==
    \A r \in Req :
        (InFlight(r) /\ \A b \in Req : t_pc[b] # "sniff")
        => /\ \A r2 \in Req \ {r} : CanStep(r2)
           /\ ENABLED MediaStart(Len(ROOT_DIRS), <<"m">>, NoHeader)
\* witness: one request waits for its subprocess, a second one launches its
\* own for another key, a third has completed a generation for a third key
C16_Witness ==
    \E r, r2, r3 \in Req :
        /\ t_pc[r] = "communicate" /\ t_proc[r] = "running"
        /\ t_pc[r2] = "exec" /\ t_key[r2] # t_key[r]
        /\ Returned(r3) /\ "decode" \in t_work[r3]
        /\ t_key[r3] \notin {t_key[r], t_key[r2]}

\* C17 (Spec): non-blocking file I/O. While a handler is inside the blocking
\* read of a thumbnail source, every other request can still take a step.
C17_NonBlockingFileIO ==
    \A r \in Req :
        t_pc[r] = "sniff" => \A r2 \in Req \ {r} : CanStep(r2)

\* request r returns or raises in this step
Finishes(r) == t_pc[r] # "done" /\ t_pc'[r] = "done"

\* C19 (Spec): store-before-return and error frame. A request that returns
\* JPEG bytes b for key k leaves thumb_cache[k] = b at the moment it returns;
\* a request that ends with an error leaves thumb_cache as it was; and a step
\* changes no entry but the one of the key of the request that returns in it.
C19_StoreBeforeReturn ==
    [][/\ \A r \in Req :
              Finishes(r)
              => IF t_status'[r] = 200
                 THEN /\ t_key'[r] \in DOMAIN thumb_cache'
                      /\ thumb_cache'[t_key'[r]] = t_body'[r]
                 ELSE thumb_cache' = thumb_cache
       /\ \A k \in DOMAIN thumb_cache \cup DOMAIN thumb_cache' :
              (k \notin DOMAIN thumb_cache \/ k \notin DOMAIN thumb_cache'
                 \/ thumb_cache'[k] # thumb_cache[k])
              => \E r \in Req : Finishes(r) /\ t_key'[r] = k]_vars
\* witness: one request has stored and returned a generated thumbnail, one
\* the placeholder, and one has ended with 404, its key not in the cache
C19_Witness ==
    \E r, r2, r3 \in Req :
        /\ Returned(r) /\ Missed(r) /\ t_body[r] # Placeholder
        /\ thumb_cache[t_key[r]] = t_body[r]
        /\ Returned(r2) /\ Missed(r2) /\ t_body[r2] = Placeholder
        /\ thumb_cache[t_key[r2]] = Placeholder
        /\ t_pc[r3] = "done" /\ t_status[r3] = 404
        /\ t_key[r3] \notin DOMAIN thumb_cache

\* C20 (Spec): cache keys are validated. Every key of thumb_cache has a root
\* index of 0 .. len(ROOT_DIRS)-1 and a path whose canonical form is its
\* root or lies below it, and names a target that exists: the lookup that
\* runs before the validation never answers for a key with an invalid root
\* index or a path escaping its root.
C20_CacheKeysValid ==
    \A k \in DOMAIN thumb_cache :
        /\ k[1] \in 0 .. Len(ROOT_DIRS) - 1
        /\ LET candidate == Resolve(JoinPath(PyIndex(k[1]), k[2]))
           IN  /\ BelowOrEqual(candidate, Resolve(Parts(PyIndex(k[1]))))
               /\ Exists(candidate)

=============================================================================
